---------------------------- MODULE Spec2Model ----------------------------
(***************************************************************************)
(* Model of blackboard.py: the challenge login performed by the Login      *)
(* constructor, the request capability it hands out, and the transport     *)
(* (urllib2 opener with a cookielib CookieJar) it drives.                  *)
(*                                                                         *)
(* Strings are sequences of atoms.  An atom is a record: [c |-> x] is the  *)
(* character x, [md5 |-> b] stands for the 32 upper-case hex characters of *)
(* the MD5 digest of the byte string b (the hash is a free constructor,    *)
(* hence collision-free), and [u16 |-> a] is the atom a widened to its     *)
(* UTF-16 little-endian code unit.                                         *)
(***************************************************************************)
EXTENDS Integers, Sequences, FiniteSets, TLC

VARIABLES
    pc,         \* position of each Login.__init__ call
    base_url,   \* Login._base_url
    user,       \* Login._user
    password,   \* Login._password
    opener,     \* Login._opener: the cookie jar its HTTPCookieProcessor holds
    nonce,      \* Login._nonce
    parameters, \* the local dict `parameters` of __init__
    jars,       \* the contents of every CookieJar object
    log,        \* per Login, the HTTP exchanges issued through its opener
    err,        \* the exception a constructor call ended with
    cap,        \* what the caller obtained from get_opener()
    got_base_url,   \* what the caller obtained from get_base_url()
    courses_login,  \* Courses._login of the Courses object, once it is built
    returned        \* what the last call of Courses.get_courses() returned

\* The state the Courses object and the getters' callers add.
courses_vars == <<got_base_url, courses_login, returned>>

vars == <<pc, base_url, user, password, opener, nonce, parameters, jars,
          log, err, cap, got_base_url, courses_login, returned>>

---------------------------------------------------------------------------
(* Bounds *)

\* Login objects the caller constructs.
Sessions == {"s1", "s2"}

\* Requests a caller issues through one capability.
MaxRequests == 1

\* Calls of get_courses() on the Courses object.
MaxCalls == 2

---------------------------------------------------------------------------
(* Strings *)

Chr(x) == [c |-> x]

Str(t) == [i \in 1..Len(t) |-> Chr(t[i])]

Whitespace == {Chr(" ")}

\* Characters outside ASCII (a unicode code point before encoding).
NonAsciiChars == {Chr("e_acute")}

\* Bytes >= 0x80.
HighBytes == {Chr("xC3"), Chr("xA9")}

IsAscii(s) == \A i \in 1..Len(s) : s[i] \notin (NonAsciiChars \cup HighBytes)

RECURSIVE lstrip(_)
lstrip(s) ==
    IF s # <<>> /\ Head(s) \in Whitespace THEN lstrip(Tail(s)) ELSE s

RECURSIVE rstrip(_)
rstrip(s) ==
    IF s # <<>> /\ s[Len(s)] \in Whitespace
    THEN rstrip(SubSeq(s, 1, Len(s) - 1))
    ELSE s

strip(s) == rstrip(lstrip(s))

\* unicode.encode('UTF-8', 'ignore'): an ASCII character is one byte, any
\* other character becomes a multi-byte sequence of high bytes.
RECURSIVE encode_utf8(_)
encode_utf8(s) ==
    IF s = <<>> THEN <<>>
    ELSE (IF Head(s) \in NonAsciiChars
          THEN <<Chr("xC3"), Chr("xA9")>>
          ELSE <<Head(s)>>) \o encode_utf8(Tail(s))

clean_string(string) == encode_utf8(strip(string))

\* str.encode('UTF-16-LE') of an ASCII string: every character becomes a
\* two-byte code unit.  (Python 2 first decodes the byte string as ASCII and
\* raises UnicodeDecodeError on a high byte; callers test IsAscii first.)
encode_utf16le(s) == [i \in 1..Len(s) |-> [u16 |-> s[i]]]

---------------------------------------------------------------------------
(* URLs *)

URL(scheme, netloc, path) == [scheme |-> scheme, netloc |-> netloc, path |-> path]

Login_url == "/webapps/login/"

Login_new_loc == "/webapps/portal/frameset.jsp"

Courses_url == "/webapps/portal/execute/tabs/tabAction"

Courses_qs == "action=refreshAjaxModule&modId=_25_1&tabId=_2_1&tab_tab_group_id=_2_1"

\* urlparse.urljoin(base, path) for an absolute path: scheme and host of the
\* base are kept, its path, query and fragment are replaced.
urljoin(base, path) == URL(base.scheme, base.netloc, path)

\* The base URLs a caller passes: a site (with a path of its own, which
\* urljoin replaces) and a string without a scheme.
BaseUrls ==
    { URL("http", "bb.test", "/site/index.html"),
      URL("", "", "bb.test") }

Users == { Str(<<"u">>) }

Passwords == { Str(<<"p">>), Str(<<"q">>), Str(<<"e_acute">>) }

---------------------------------------------------------------------------
(* The server and the transport *)

\* No opener (yet).
NoOpener == "none"

\* An opener built without a cookie jar.
NoJar == "nojar"

NoData == [nodata |-> TRUE]

\* What element.xpath(Login.xp_nonce) finds in a login page: the values of
\* the value attributes of the inputs named one_time_token, in document order.
Pages ==
    { <<>>,
      << Str(<<>>) >>,
      << Str(<<"n">>) >>,
      << Str(<<" ", "m", " ">>), Str(<<"n">>) >>,
      << Str(<<"e_acute">>) >> }

\* A response body: a page lxml can parse, or one it cannot.
Bodies == [parsed : {TRUE}, values : Pages] \cup [parsed : {FALSE}, values : {<<>>}]

\* A cookie is identified by the exchange whose response set it.
Cookie(s, n) == [session |-> s, exchange |-> n]

Response(status, url, redirected, body, setcookie) ==
    [status |-> status, url |-> url, redirected |-> redirected, body |-> body,
     setcookie |-> setcookie]

\* No response at all (URLError), or an HTTP error status (HTTPError), whose
\* Set-Cookie headers the cookie processor has already stored.
Failures(url) ==
    { Response("URLError", url, FALSE, [parsed |-> FALSE, values |-> <<>>], FALSE) }
    \cup
    { Response("HTTPError", url, FALSE, [parsed |-> FALSE, values |-> <<>>], sc) :
        sc \in BOOLEAN }

\* The answers of the server to the GET of the login page.
GetResponses(url) ==
    Failures(url) \cup
    { Response("ok", url, FALSE, b, sc) : b \in Bodies, sc \in BOOLEAN }

\* The answers to the login POST: the login page again (re-rendered, or by a
\* redirect back to it), or a redirect to the portal.
PostResponses(url) ==
    Failures(url) \cup
    { Response("ok", r[1], r[2], [parsed |-> TRUE, values |-> <<>>], sc) :
        r \in { <<url, FALSE>>, <<url, TRUE>>,
                <<urljoin(url, Login_new_loc), TRUE>> },
        sc \in BOOLEAN }

\* The answers to a request issued through the capability.
CapResponses(url) ==
    { Response("URLError", url, FALSE, [parsed |-> FALSE, values |-> <<>>], FALSE) }
    \cup
    { Response("ok", url, FALSE, [parsed |-> TRUE, values |-> <<>>], sc) :
        sc \in BOOLEAN }

\* One <li> of the course listing: the text contents of its <a> children and
\* of its instructor spans, in document order.
Item(a, prof) == [a |-> a, prof |-> prof]

\* What html.xpath(Courses.xp_li) finds in the answer to get_courses: no
\* item; a course listed twice (the names differ in padding only) and a
\* course without instructor; an item without link and one with two links.
Listings ==
    { <<>>,
      << Item(<<Str(<<"A">>)>>, <<Str(<<"x">>), Str(<<"y">>)>>),
         Item(<<Str(<<"B">>)>>, <<>>),
         Item(<<Str(<<" ", "A">>)>>, <<Str(<<"z", " ">>)>>) >>,
      << Item(<<>>, <<Str(<<"x">>)>>),
         Item(<<Str(<<"B">>), Str(<<"A">>)>>, <<Str(<<"y">>), Str(<<"x">>)>>) >> }

\* The answers to the request of get_courses (they set no cookie: the
\* cookies of requests through the capability are those of CapResponses).
CoursesResponses(url) ==
    { Response("URLError", url, FALSE, [parsed |-> FALSE, values |-> <<>>], FALSE) }
    \cup
    { Response("ok", url, FALSE, [parsed |-> TRUE, values |-> l], FALSE) :
        l \in Listings }

\* The cookies the HTTPCookieProcessor of opener j adds to a request.
JarCookies(j) == IF j \in DOMAIN jars THEN jars[j] ELSE {}

\* One exchange through opener j as session s sees it: the request goes out
\* with the jar's cookies and the response comes back.
Exchange(s, j, via, method, url, data, resp) ==
    [via |-> via, method |-> method, url |-> url, data |-> data,
     jar |-> j, cookies |-> JarCookies(j), resp |-> resp]

\* An opener built without its HTTPCookieProcessor keeps no cookie.
ExtractCookies_dropped(s, j, resp) == jars

\* HTTPCookieProcessor.http_response: the cookies of the response go into
\* the jar of the opener.
ExtractCookies(s, j, resp) ==
    IF j \notin DOMAIN jars \/ ~resp.setcookie THEN jars
    ELSE [jars EXCEPT ![j] = @ \cup {Cookie(s, Len(log[s]) + 1)}]

---------------------------------------------------------------------------
(* Pure functions of blackboard.py *)

\* An absent field turned into the text of None.
xp_text_single_none(elements) ==
    IF 0 < Len(elements) THEN clean_string(elements[1]) ELSE Str(<<"None">>)

\* The hash left out of the derivation.
d_plain(s) == s

xp_text_single(elements) ==
    IF 0 < Len(elements) THEN clean_string(elements[1]) ELSE <<>>

\* [clean_string(e.text_content()) for e in element.xpath(xpath)], given
\* the text contents of the elements the query finds.
xp(texts) == [i \in 1..Len(texts) |-> clean_string(texts[i])]

xp_text_content_single(texts) ==
    IF 0 < Len(texts) THEN clean_string(texts[1]) ELSE <<>>

\* The XPath step a[1]: the first <a> child, if there is one.
xp_name(a) == IF Len(a) > 0 THEN <<a[1]>> ELSE <<>>

\* ' '.join(list)
RECURSIVE join(_, _)
join(sep, list) ==
    IF list = <<>> THEN <<>>
    ELSE IF Len(list) = 1 THEN list[1]
    ELSE list[1] \o sep \o join(sep, Tail(list))

\* courses[k] = v on a dict held as a set of <<key, value>> pairs.
setitem(dict, k, v) == {p \in dict : p[1] # k} \cup {<<k, v>>}

\* The result kept on the object and filled further by every call.
courses_start_kept == returned.courses

\* Line 178: courses = {}
courses_start == {}

\* Lines 184-186: the loop over the <li> items.
RECURSIVE courses_loop(_, _)
courses_loop(courses, lis) ==
    IF lis = <<>> THEN courses
    ELSE courses_loop(
            setitem(courses,
                    xp_text_content_single(xp_name(Head(lis).a)),
                    join(Str(<<" ">>), xp(Head(lis).prof))),
            Tail(lis))

\* def d(s): return md5(s).hexdigest().upper()
d(s) == << [md5 |-> s] >>

\* The token left out of the seed of the unicode digest.
challenge_login_notoken(pw, token) ==
    IF ~IsAscii(pw) \/ ~IsAscii(token)
    THEN [raised |-> TRUE, encoded_pw |-> <<>>, encoded_pw_u |-> <<>>]
    ELSE [raised |-> FALSE,
          encoded_pw |-> << [md5 |-> << [md5 |-> pw] >> \o token] >>,
          encoded_pw_u |->
            << [md5 |-> encode_utf16le(<< [md5 |-> encode_utf16le(pw)] >>)] >>]

\* The token left out of the seed of encoded_pw.
challenge_login_fixedseed(pw, token) ==
    IF ~IsAscii(pw) \/ ~IsAscii(token)
    THEN [raised |-> TRUE, encoded_pw |-> <<>>, encoded_pw_u |-> <<>>]
    ELSE [raised |-> FALSE,
          encoded_pw |-> << [md5 |-> << [md5 |-> pw] >>] >>,
          encoded_pw_u |->
            << [md5 |-> encode_utf16le(<< [md5 |-> encode_utf16le(pw)] >> \o token)] >>]

\* Login._challenge_login: the pair of digests, or the UnicodeError that
\* md5() / encode() raise on a secret or token that is not ASCII.
challenge_login(pw, token) ==
    IF ~IsAscii(pw) \/ ~IsAscii(token)
    THEN [raised |-> TRUE, encoded_pw |-> <<>>, encoded_pw_u |-> <<>>]
    ELSE LET enc_p == d(pw)
             enc_pu == d(encode_utf16le(pw))
         IN [raised |-> FALSE,
             encoded_pw |-> d(enc_p \o token),
             encoded_pw_u |-> d(encode_utf16le(enc_pu \o token))]

\* The dict built at lines 80-91.
Parameters(u, token, encoded_pw, encoded_pw_u) ==
    [user_id |-> u,
     password |-> <<>>,
     login |-> Str(<<"Iniciar sesion">>),
     action |-> Str(<<"login">>),
     remote_user |-> <<>>,
     new_loc |-> Str(<<Login_new_loc>>),
     auth_type |-> <<>>,
     one_time_token |-> token,
     encoded_pw |-> encoded_pw,
     encoded_pw_unicode |-> encoded_pw_u]

NoParameters == Parameters(<<>>, <<>>, <<>>, <<>>)

\* One jar created at class level and shared by every Login.
CookieJar_shared(s) == "s1"

\* The CookieJar object created by constructor call s.
CookieJar(s) == s

\* The comparison inverted.
Rejected_inverted(url, previous_url) == url # previous_url

\* The comparison left out: no login is ever rejected.
Rejected_never(url, previous_url) == FALSE

\* if url == previous_url: raise InvalidCredentialsException()
Rejected(url, previous_url) == url = previous_url

\* A getter that builds a new opener, without the jar of the login.
get_opener_fresh(s) == NoJar

\* Login.get_opener
get_opener(s) == opener[s]

\* Login.get_base_url
get_base_url(s) == base_url[s]

\* The GET sent to the base URL itself.
fetch_nonce_url_base(s) == base_url[s]

\* Line 110: the URL _fetch_nonce opens.
fetch_nonce_url(s) == urljoin(base_url[s], Login_url)

\* Nothing obtained from get_base_url() yet.
NoUrl == URL("", "", "")

\* No Courses object yet.
NoLogin == "none"

\* get_courses() has not returned: the mapping is a set of <<name, value>>.
NoReturn == [calls |-> 0, returned |-> FALSE, courses |-> {}]

---------------------------------------------------------------------------
(* The state machine *)

Init ==
    /\ pc = [s \in Sessions |-> "new"]
    /\ base_url = [s \in Sessions |-> URL("", "", "")]
    /\ user = [s \in Sessions |-> <<>>]
    /\ password = [s \in Sessions |-> <<>>]
    /\ opener = [s \in Sessions |-> NoOpener]
    /\ nonce = [s \in Sessions |-> <<>>]
    /\ parameters = [s \in Sessions |-> NoParameters]
    /\ jars = [s \in Sessions |-> {}]
    /\ log = [s \in Sessions |-> <<>>]
    /\ err = [s \in Sessions |-> "none"]
    /\ cap = [s \in Sessions |-> NoOpener]
    /\ got_base_url = [s \in Sessions |-> NoUrl]
    /\ courses_login = NoLogin
    /\ returned = NoReturn

\* Every exception caught and reported as a rejected login.
Raise_translated(s, e) ==
    /\ pc' = [pc EXCEPT ![s] = "failed"]
    /\ err' = [err EXCEPT ![s] = "InvalidCredentialsException"]

\* The failing step run again instead of the exception reaching the caller.
Raise_retried(s, e) ==
    /\ pc' = [pc EXCEPT ![s] = pc[s]]
    /\ err' = [err EXCEPT ![s] = e]

\* The constructor call ends with exception e.
Raise(s, e) ==
    /\ pc' = [pc EXCEPT ![s] = "failed"]
    /\ err' = [err EXCEPT ![s] = e]

\* Lines 74-77: the fields are set and the opener is built around a new jar.
LoginInit(s) ==
    /\ pc[s] = "new"
    /\ \E b \in BaseUrls, u \in Users, p \in Passwords :
        /\ base_url' = [base_url EXCEPT ![s] = b]
        /\ user' = [user EXCEPT ![s] = u]
        /\ password' = [password EXCEPT ![s] = p]
    /\ opener' = [opener EXCEPT ![s] = CookieJar(s)]
    /\ jars' = [jars EXCEPT ![CookieJar(s)] = {}]
    /\ pc' = [pc EXCEPT ![s] = "fetch"]
    /\ UNCHANGED courses_vars
    /\ UNCHANGED <<nonce, parameters, log, err, cap>>

\* Line 78 and _fetch_nonce: GET the login page, parse it, take the token.
FetchNonce(s) ==
    /\ pc[s] = "fetch"
    /\ LET url == fetch_nonce_url(s) IN
       IF url.scheme = ""
       THEN \* urllib2: ValueError("unknown url type"), nothing is sent
            /\ Raise(s, "ValueError")
            /\ UNCHANGED <<nonce, jars, log>>
       ELSE \E resp \in GetResponses(url) :
            /\ log' = [log EXCEPT ![s] =
                        Append(@, Exchange(s, opener[s], "login", "GET", url, NoData, resp))]
            /\ jars' = ExtractCookies(s, opener[s], resp)
            /\ IF resp.status # "ok"
               THEN Raise(s, resp.status) /\ UNCHANGED nonce
               ELSE IF ~resp.body.parsed
               THEN Raise(s, "ParseError") /\ UNCHANGED nonce
               ELSE /\ nonce' = [nonce EXCEPT ![s] = xp_text_single(resp.body.values)]
                    /\ pc' = [pc EXCEPT ![s] = "derive"]
                    /\ UNCHANGED err
    /\ UNCHANGED courses_vars
    /\ UNCHANGED <<base_url, user, password, opener, parameters, cap>>

\* Lines 79-91: derive the digests and build the form.
ChallengeLogin(s) ==
    /\ pc[s] = "derive"
    /\ LET r == challenge_login(password[s], nonce[s]) IN
       IF r.raised
       THEN Raise(s, "UnicodeError") /\ UNCHANGED parameters
       ELSE /\ parameters' = [parameters EXCEPT ![s] =
                Parameters(user[s], nonce[s], r.encoded_pw, r.encoded_pw_u)]
            /\ pc' = [pc EXCEPT ![s] = "post"]
            /\ UNCHANGED err
    /\ UNCHANGED courses_vars
    /\ UNCHANGED <<base_url, user, password, opener, nonce, jars, log, cap>>

\* Lines 92-96: POST the form and compare the final URL with the login URL.
Submit(s) ==
    /\ pc[s] = "post"
    /\ LET url == urljoin(base_url[s], Login_url) IN
       \E resp \in PostResponses(url) :
            /\ log' = [log EXCEPT ![s] =
                        Append(@, Exchange(s, opener[s], "login", "POST", url,
                                           parameters[s], resp))]
            /\ jars' = ExtractCookies(s, opener[s], resp)
            /\ IF resp.status # "ok"
               THEN Raise(s, resp.status)
               ELSE IF Rejected(url, resp.url)
               THEN Raise(s, "InvalidCredentialsException")
               ELSE pc' = [pc EXCEPT ![s] = "done"] /\ UNCHANGED err
    /\ UNCHANGED courses_vars
    /\ UNCHANGED <<base_url, user, password, opener, nonce, parameters, cap>>

\* The caller holds a Login object only when its constructor returned.
Constructed(s) == pc[s] = "done"

\* A getter that sends the Login back to its first step.
GetOpener_relogin(s) ==
    /\ Constructed(s)
    /\ cap[s] = NoOpener
    /\ cap' = [cap EXCEPT ![s] = get_opener(s)]
    /\ pc' = [pc EXCEPT ![s] = "fetch"]
    /\ UNCHANGED courses_vars
    /\ UNCHANGED <<base_url, user, password, opener, nonce, parameters,
                   jars, log, err>>

\* login.get_opener()
GetOpener(s) ==
    /\ Constructed(s)
    /\ cap[s] = NoOpener
    /\ cap' = [cap EXCEPT ![s] = get_opener(s)]
    /\ UNCHANGED courses_vars
    /\ UNCHANGED <<pc, base_url, user, password, opener, nonce, parameters,
                   jars, log, err>>

CapRequests(s) == Len(SelectSeq(log[s], LAMBDA e : e.via = "cap"))

\* urlopen(url) through the bound method get_opener() returned.
Request(s) ==
    /\ cap[s] # NoOpener
    /\ CapRequests(s) < MaxRequests
    /\ LET url == urljoin(get_base_url(s), Courses_url) IN
       \E resp \in CapResponses(url) :
            /\ log' = [log EXCEPT ![s] =
                        Append(@, Exchange(s, cap[s], "cap", "GET", url, NoData, resp))]
            /\ jars' = ExtractCookies(s, cap[s], resp)
    /\ UNCHANGED courses_vars
    /\ UNCHANGED <<pc, base_url, user, password, opener, nonce, parameters,
                   err, cap>>

\* login.get_base_url()
GetBaseUrl(s) ==
    /\ Constructed(s)
    /\ got_base_url[s] = NoUrl
    /\ got_base_url' = [got_base_url EXCEPT ![s] = get_base_url(s)]
    /\ UNCHANGED <<pc, base_url, user, password, opener, nonce, parameters,
                   jars, log, err, cap, courses_login, returned>>

\* Courses(login), lines 166-173.
CoursesInit(s) ==
    /\ Constructed(s)
    /\ courses_login = NoLogin
    /\ courses_login' = s
    /\ UNCHANGED <<pc, base_url, user, password, opener, nonce, parameters,
                   jars, log, err, cap, got_base_url, returned>>

\* Courses.get_courses(), lines 175-187, on the Courses object built on s.
GetCourses(s) ==
    /\ courses_login = s
    /\ returned.calls < MaxCalls
    /\ LET url == urljoin(get_base_url(s), Courses_url) IN
       \E resp \in CoursesResponses(url) :
            /\ log' = [log EXCEPT ![s] =
                        Append(@, Exchange(s, get_opener(s), "courses", "POST",
                                           url, [qs |-> Courses_qs], resp))]
            /\ jars' = ExtractCookies(s, get_opener(s), resp)
            /\ returned' =
                    IF resp.status = "ok" /\ resp.body.parsed
                    THEN [calls |-> returned.calls + 1, returned |-> TRUE,
                          courses |-> courses_loop(courses_start, resp.body.values)]
                    ELSE [calls |-> returned.calls + 1, returned |-> FALSE,
                          courses |-> {}]
    /\ UNCHANGED <<pc, base_url, user, password, opener, nonce, parameters,
                   err, cap, got_base_url, courses_login>>

Next ==
    \E s \in Sessions :
        \/ LoginInit(s)
        \/ FetchNonce(s)
        \/ ChallengeLogin(s)
        \/ Submit(s)
        \/ GetOpener(s)
        \/ Request(s)

Spec == Init /\ [][Next]_vars

\* The Login of the program of lines 190-198.
MainLogin == "s1"

\* The program of lines 190-198: one Login, a Courses object on it, and
\* calls of the getters and of get_courses.
NextMain ==
    \/ LoginInit(MainLogin)
    \/ FetchNonce(MainLogin)
    \/ ChallengeLogin(MainLogin)
    \/ Submit(MainLogin)
    \/ GetBaseUrl(MainLogin)
    \/ GetOpener(MainLogin)
    \/ Request(MainLogin)
    \/ CoursesInit(MainLogin)
    \/ GetCourses(MainLogin)

SpecMain == Init /\ [][NextMain]_vars

---------------------------------------------------------------------------
(* Vocabulary of the properties *)

\* The URL of the login page of session s.
LoginURL(s) == urljoin(base_url[s], Login_url)

\* The exchanges the constructor of s issued.
LoginExchanges(s) == SelectSeq(log[s], LAMBDA e : e.via = "login")

\* The constructor call of s is over.
Ended(s) == pc[s] \in {"done", "failed"}

\* The constructor call of s ended with an exception.
Failed(s) == err[s] # "none"

\* The Session is authenticated: the constructor returned the Login object.
Authenticated(s) == Constructed(s)

\* The login POST of s got a response.
PostCompleted(s) ==
    /\ Len(log[s]) >= 2
    /\ log[s][2].method = "POST"
    /\ log[s][2].resp.status = "ok"

TransportErrors == {"URLError", "HTTPError"}

---------------------------------------------------------------------------
(* C1 *)

\* C1: whenever the login POST of a Session completed, the Session is
\* authenticated exactly if the final URL of the POST response differs from
\* urljoin(base_url, '/webapps/login/'); when the two are equal the attempt
\* ended with InvalidCredentialsException; and no Session is authenticated
\* without a completed POST.
C1_AuthenticatedIffUrlDiffers ==
    \A s \in Sessions :
        /\ PostCompleted(s) =>
            /\ Authenticated(s) <=> log[s][2].resp.url # LoginURL(s)
            /\ log[s][2].resp.url = LoginURL(s) =>
                    /\ err[s] = "InvalidCredentialsException"
                    /\ pc[s] = "failed"
        /\ Authenticated(s) => PostCompleted(s) /\ err[s] = "none"

\* One Session rejected although the server redirected (back to the login
\* page), another authenticated.
C1_Witness ==
    \E s, t \in Sessions :
        /\ PostCompleted(s) /\ log[s][2].resp.redirected
        /\ err[s] = "InvalidCredentialsException"
        /\ PostCompleted(t) /\ Authenticated(t)

---------------------------------------------------------------------------
(* C2 *)

\* C2 as stated: every constructor call that is over (given an absolute base
\* URL) has issued exactly two requests, the GET and the POST, whatever its
\* outcome, and the cookies of both responses are in the cookie store.
C2_AsClaimed ==
    \A s \in Sessions :
        (Ended(s) /\ base_url[s].scheme # "") =>
            /\ Len(LoginExchanges(s)) = 2
            /\ LoginExchanges(s)[1].method = "GET"
            /\ LoginExchanges(s)[2].method = "POST"
            /\ \A i \in 1..2 :
                LoginExchanges(s)[i].resp.setcookie =>
                    Cookie(s, i) \in jars[opener[s]]

\* C2 amended: a constructor call issues at most two requests, first the GET
\* of the login page and then the POST to the same URL; the POST is sent only
\* after the GET completed; a call that ended with success or with
\* InvalidCredentialsException has issued exactly the two; a call that ended
\* earlier has issued the GET alone, or nothing when the base URL has no
\* scheme; and every cookie a response of either exchange set is in the
\* Session's cookie store.
C2_AtMostTwoRequests ==
    \A s \in Sessions :
        LET ex == LoginExchanges(s) IN
        /\ Len(ex) <= 2
        /\ Len(ex) >= 1 => ex[1].method = "GET" /\ ex[1].url = LoginURL(s)
        /\ Len(ex) >= 2 =>
            /\ ex[2].method = "POST" /\ ex[2].url = LoginURL(s)
            /\ ex[1].resp.status = "ok"
        /\ (pc[s] = "done" \/ err[s] = "InvalidCredentialsException") => Len(ex) = 2
        /\ (Failed(s) /\ Len(ex) < 2) =>
            \/ err[s] = "ValueError" /\ Len(ex) = 0
            \/ err[s] \in TransportErrors \cup {"ParseError", "UnicodeError"} /\ Len(ex) = 1
        /\ \A i \in 1..Len(ex) :
            ex[i].resp.setcookie => Cookie(s, i) \in jars[opener[s]]

\* A call over after the GET alone, a call over after both exchanges, and
\* both responses of the latter stored a cookie.
C2_Witness ==
    \E s, t \in Sessions :
        /\ Failed(s) /\ Len(LoginExchanges(s)) = 1
        /\ Ended(t) /\ Len(LoginExchanges(t)) = 2
        /\ {Cookie(t, 1), Cookie(t, 2)} \subseteq jars[opener[t]]

---------------------------------------------------------------------------
(* C3 *)

\* C3: a constructor call whose GET or POST failed in the transport ended
\* with that very error (not with InvalidCredentialsException, not with
\* success), and InvalidCredentialsException is raised only when the POST
\* completed and its final URL equals the login URL.
C3_TransportErrorsPropagate ==
    \A s \in Sessions :
        /\ \A i \in 1..Len(log[s]) :
            (log[s][i].via = "login" /\ log[s][i].resp.status # "ok") =>
                /\ pc[s] = "failed"
                /\ err[s] = log[s][i].resp.status
                /\ i = Len(log[s])
        /\ err[s] = "InvalidCredentialsException" =>
            /\ PostCompleted(s)
            /\ log[s][2].resp.url = LoginURL(s)

\* One call ended by a URLError of its GET, another by an HTTPError of its
\* POST.
C3_Witness ==
    \E s, t \in Sessions :
        /\ Len(log[s]) = 1 /\ log[s][1].resp.status = "URLError"
        /\ err[s] = "URLError"
        /\ Len(log[t]) = 2 /\ log[t][2].resp.status = "HTTPError"
        /\ err[t] = "HTTPError"

---------------------------------------------------------------------------
(* C4 *)

\* C4: once a constructor call has failed, no step changes its Session any
\* more: no further request is sent, no step is repeated, the exception stays
\* the same and the Session never becomes authenticated or hands out its
\* capability; and in every state a failed GET is the only request of its
\* attempt.
C4_FailureIsTerminal ==
    [][ \A s \in Sessions :
            /\ Failed(s) =>
                /\ log'[s] = log[s]
                /\ err'[s] = err[s]
                /\ pc[s] = "failed" /\ pc'[s] = "failed"
                /\ nonce'[s] = nonce[s]
                /\ parameters'[s] = parameters[s]
                /\ cap'[s] = NoOpener
            /\ (Len(log'[s]) >= 1 /\ log'[s][1].resp.status # "ok") =>
                    Len(log'[s]) = 1
      ]_vars

\* A Session that failed at its GET and one that was rejected, with the
\* other one's later steps taken while the first stayed failed.
C4_Witness ==
    \E s, t \in Sessions :
        /\ Failed(s) /\ Len(log[s]) = 1 /\ log[s][1].resp.status # "ok"
        /\ err[t] = "InvalidCredentialsException" /\ Len(log[t]) = 2

---------------------------------------------------------------------------
(* C5 *)

\* C5: the capability of a Session is obtained only when its login ran to
\* completion and succeeded; every request that is not the login GET or POST
\* went through an authenticated Session and after its two login exchanges;
\* a Session that is not authenticated has issued login requests only and
\* exposes no capability.
C5_CapabilityOnlyAfterLogin ==
    \A s \in Sessions :
        /\ cap[s] # NoOpener =>
            /\ Authenticated(s)
            /\ PostCompleted(s)
            /\ log[s][2].resp.url # LoginURL(s)
        /\ \A i \in 1..Len(log[s]) :
            log[s][i].via = "cap" =>
                /\ i > 2
                /\ Authenticated(s)
                /\ log[s][2].resp.url # LoginURL(s)
        /\ ~Authenticated(s) =>
            /\ cap[s] = NoOpener
            /\ \A i \in 1..Len(log[s]) : log[s][i].via = "login"

\* One Session used its capability while the other, rejected, has none.
C5_Witness ==
    \E s, t \in Sessions :
        /\ cap[s] # NoOpener /\ Len(log[s]) = 3 /\ log[s][3].via = "cap"
        /\ err[t] = "InvalidCredentialsException" /\ cap[t] = NoOpener

---------------------------------------------------------------------------
(* C6 *)

\* needle occurs in hay as a run of consecutive top-level atoms.
Contains(hay, needle) ==
    \E i \in 1..(Len(hay) - Len(needle) + 1) :
        SubSeq(hay, i, i + Len(needle) - 1) = needle

FormFields ==
    {"user_id", "password", "login", "action", "remote_user", "new_loc",
     "auth_type", "one_time_token", "encoded_pw", "encoded_pw_unicode"}

SecretFields == {"encoded_pw", "encoded_pw_unicode"}

\* What a request puts on the wire, apart from the cookies.
Wire(e) == [method |-> e.method, url |-> e.url, data |-> e.data]

\* C6: no request of a login attempt carries the raw secret: the GET has no
\* body, the 'password' field of the POST is empty and no field of the form
\* contains the secret as it was given; and two attempts that agree on base
\* URL, user and fetched token send the same GET and POST forms that differ
\* in encoded_pw and encoded_pw_unicode alone, and do differ there when the
\* secrets differ.
C6_SecretOnlyInDigests ==
    /\ \A s \in Sessions : \A i \in 1..Len(log[s]) :
        LET e == log[s][i] IN
        /\ e.method = "GET" => e.data = NoData
        /\ e.method = "POST" =>
            /\ DOMAIN e.data = FormFields
            /\ e.data.password = <<>>
            /\ \A f \in FormFields : ~Contains(e.data[f], password[s])
    /\ \A s, t \in Sessions :
        ( /\ Len(log[s]) >= 2 /\ Len(log[t]) >= 2
          /\ base_url[s] = base_url[t] /\ user[s] = user[t]
          /\ nonce[s] = nonce[t] ) =>
            /\ Wire(log[s][1]) = Wire(log[t][1])
            /\ log[s][2].method = log[t][2].method
            /\ log[s][2].url = log[t][2].url
            /\ \A f \in FormFields \ SecretFields :
                    log[s][2].data[f] = log[t][2].data[f]
            /\ password[s] # password[t] =>
                \A f \in SecretFields : log[s][2].data[f] # log[t][2].data[f]

\* Two attempts with different secrets and the same token, both posted.
C6_Witness ==
    \E s, t \in Sessions :
        /\ Len(log[s]) >= 2 /\ Len(log[t]) >= 2
        /\ base_url[s] = base_url[t] /\ user[s] = user[t]
        /\ nonce[s] = nonce[t] /\ nonce[s] # <<>>
        /\ password[s] # password[t]

---------------------------------------------------------------------------
(* C7 *)

\* The login page the GET of s returned has no one_time_token value.
TokenAbsent(s) ==
    /\ Len(log[s]) >= 1
    /\ log[s][1].resp.status = "ok"
    /\ log[s][1].resp.body.parsed
    /\ log[s][1].resp.body.values = <<>>

\* The login page of s has the field, with an empty value.
TokenEmpty(s) ==
    /\ Len(log[s]) >= 1
    /\ log[s][1].resp.status = "ok"
    /\ log[s][1].resp.body.parsed
    /\ log[s][1].resp.body.values = << <<>> >>

---------------------------------------------------------------------------
(* C8 *)

\* The token the GET of s returned: the first value of the page, stripped.
FetchedToken(s) == xp_text_single(log[s][1].resp.body.values)

Posts(s) == SelectSeq(log[s], LAMBDA e : e.method = "POST")

\* C8: in every attempt that posted, the one_time_token field, the token
\* hashed into encoded_pw and the token hashed into encoded_pw_unicode are the
\* token the attempt's own GET returned; an attempt posts at most once; and
\* where two attempts fetched different tokens neither submits the other's.
C8_OwnNonceOnly ==
    /\ \A s \in Sessions :
        /\ Len(Posts(s)) <= 1
        /\ Len(log[s]) >= 2 =>
            LET tok == FetchedToken(s)
                form == log[s][2].data
                h == << [md5 |-> password[s]] >>
                hu == << [md5 |-> encode_utf16le(password[s])] >>
            IN  /\ nonce[s] = tok
                /\ form.one_time_token = tok
                /\ form.encoded_pw = << [md5 |-> h \o tok] >>
                /\ form.encoded_pw_unicode =
                        << [md5 |-> encode_utf16le(hu \o tok)] >>
    /\ \A s, t \in Sessions :
        ( /\ Len(log[s]) >= 2 /\ Len(log[t]) >= 1
          /\ log[t][1].resp.status = "ok" /\ log[t][1].resp.body.parsed
          /\ FetchedToken(s) # FetchedToken(t) ) =>
            log[s][2].data.one_time_token # FetchedToken(t)

\* Two attempts that fetched different, non-empty tokens and both posted.
C8_Witness ==
    \E s, t \in Sessions :
        /\ Len(log[s]) >= 2 /\ Len(log[t]) >= 2
        /\ FetchedToken(s) # <<>> /\ FetchedToken(t) # <<>>
        /\ FetchedToken(s) # FetchedToken(t)

---------------------------------------------------------------------------
(* C9 *)

\* C9: every request of a Session, the requests through its capability
\* included, goes through the one opener built at construction, whose cookie
\* store was empty at the first request; each request carries every cookie
\* that a response to an earlier request of the Session set, so the POST has
\* the cookies of the GET and a later request has those of the login.
C9_OneCookieStorePerSession ==
    \A s \in Sessions :
        /\ Len(log[s]) >= 1 => log[s][1].cookies = {}
        /\ \A i \in 1..Len(log[s]) :
            /\ log[s][i].jar = opener[s]
            /\ log[s][i].jar \notin {NoOpener, NoJar}
            /\ \A k \in 1..(i - 1) :
                log[s][k].resp.setcookie => Cookie(s, k) \in log[s][i].cookies

\* A request through the capability that carried the cookies of the GET and
\* of the POST of its login.
C9_Witness ==
    \E s \in Sessions :
        /\ Len(log[s]) = 3
        /\ log[s][3].via = "cap"
        /\ log[s][2].cookies = {Cookie(s, 1)}
        /\ log[s][3].cookies = {Cookie(s, 1), Cookie(s, 2)}

---------------------------------------------------------------------------
(* C10 *)

\* C10: two Sessions never have the same cookie store; the store of a
\* Session holds, and its requests carry, only cookies set by responses to
\* that Session's own requests; and the first request of a Session carries no
\* cookie, whatever the other Session did before.
C10_CookieStoresNotShared ==
    \A s \in Sessions :
        /\ \A t \in Sessions \ {s} :
            opener[s] # NoOpener => opener[s] # opener[t]
        /\ opener[s] # NoOpener =>
            \A c \in jars[opener[s]] : c.session = s
        /\ \A i \in 1..Len(log[s]) :
            /\ \A c \in log[s][i].cookies : c.session = s
            /\ i = 1 => log[s][i].cookies = {}

\* Both Sessions logged in, used their capability and hold a cookie each,
\* the other Session's store being filled already when the second started.
C10_Witness ==
    \E s, t \in Sessions :
        /\ s # t
        /\ Len(log[s]) = 3 /\ Len(log[t]) = 3
        /\ jars[opener[s]] = {Cookie(s, 1), Cookie(s, 2), Cookie(s, 3)}
        /\ jars[opener[t]] = {Cookie(t, 1), Cookie(t, 2), Cookie(t, 3)}

---------------------------------------------------------------------------
(* C12 *)

\* h = uppercase-hex MD5.
h(bytes) == << [md5 |-> bytes] >>

\* Every code unit of a string re-encoded as UTF-16 little-endian.
utf16le(str) == [i \in 1..Len(str) |-> [u16 |-> str[i]]]

\* _challenge_login has been called in the constructor of s.
Derived(s) ==
    /\ Len(log[s]) >= 1
    /\ log[s][1].resp.status = "ok"
    /\ log[s][1].resp.body.parsed
    /\ pc[s] # "derive"

\* C12: for every secret and every nonce of the input sets, _challenge_login
\* returns the pair (h(h(s) ++ t), h(utf16le(h(utf16le(s)) ++ t))), and these
\* are the values of encoded_pw and encoded_pw_unicode, in this order, in the
\* form and in the POST.
C12_DigestPair ==
    \A s \in Sessions :
        Derived(s) =>
            LET pw == password[s]
                t == nonce[s]
                r == challenge_login(pw, t)
            IN  /\ ~r.raised
                /\ r.encoded_pw = h(h(pw) \o t)
                /\ r.encoded_pw_u = h(utf16le(h(utf16le(pw)) \o t))
                /\ parameters[s].encoded_pw = h(h(pw) \o t)
                /\ parameters[s].encoded_pw_unicode =
                        h(utf16le(h(utf16le(pw)) \o t))
                /\ Len(log[s]) >= 2 => log[s][2].data = parameters[s]

---------------------------------------------------------------------------
(* C13 *)

\* C13: two attempts with the same secret whose fetched nonces differ derive
\* different values of encoded_pw, and the byte strings hashed for them (the
\* hex digest of the secret followed by the nonce) differ; so the encoded_pw
\* an attempt posts is not the one derived for another nonce.
C13_DigestDependsOnNonce ==
    \A s, t \in Sessions :
        ( /\ Derived(s) /\ parameters[s] # NoParameters
          /\ Derived(t) /\ parameters[t] # NoParameters
          /\ password[s] = password[t]
          /\ nonce[s] # nonce[t] ) =>
            /\ parameters[s].encoded_pw # parameters[t].encoded_pw
            /\ parameters[s].encoded_pw[1].md5 # parameters[t].encoded_pw[1].md5
            /\ Len(log[s]) >= 2 =>
                    log[s][2].data.encoded_pw # parameters[t].encoded_pw

\* Two attempts with one secret and the nonces 'n' and 'm', both posted.
C13_Witness ==
    \E s, t \in Sessions :
        /\ Len(log[s]) >= 2 /\ Len(log[t]) >= 2
        /\ password[s] = password[t]
        /\ nonce[s] = Str(<<"n">>) /\ nonce[t] = Str(<<"m">>)

---------------------------------------------------------------------------
(* C14 *)

\* C14: in one attempt the GET and the POST go to the same URL, the login
\* path resolved against the base URL, and the final URL of the POST is
\* compared against that URL; the form is derived only after the GET has
\* returned the token, and the POST is sent only with the form derived from
\* that token.
C14_OneLoginUrlInOrder ==
    \A s \in Sessions :
        /\ Len(log[s]) >= 1 =>
            /\ log[s][1].method = "GET"
            /\ log[s][1].url = urljoin(base_url[s], Login_url)
        /\ parameters[s] # NoParameters =>
            /\ Len(log[s]) >= 1
            /\ log[s][1].resp.status = "ok"
            /\ log[s][1].resp.body.parsed
        /\ Len(log[s]) >= 2 =>
            /\ log[s][2].method = "POST"
            /\ log[s][2].url = log[s][1].url
            /\ log[s][1].resp.status = "ok"
            /\ parameters[s] # NoParameters
            /\ log[s][2].data = parameters[s]
            /\ log[s][2].data.one_time_token = nonce[s]
            /\ log[s][2].resp.status = "ok" =>
                (Authenticated(s) <=> log[s][2].resp.url # log[s][1].url)

\* An attempt with its form derived and the POST not yet sent, beside one
\* whose POST was answered by a redirect.
C14_Witness ==
    \E s, t \in Sessions :
        /\ pc[s] = "post" /\ Len(log[s]) = 1
        /\ Len(log[t]) = 2 /\ Authenticated(t)
        /\ log[t][1].url.path = Login_url
        /\ base_url[t].path # Login_url

---------------------------------------------------------------------------
(* C11 *)

\* C11: over every step, an authenticated Session stays authenticated; once
\* a constructor call is over its position, its exception and its login
\* exchanges no longer change (the login is not run again, whatever getter,
\* request or get_courses call follows); a Session becomes authenticated only
\* by the step of its constructor that checks the outcome of the POST; and a
\* Session whose construction failed is never authenticated.
C11_AuthenticatedOnceAtConstruction ==
    [][ \A s \in Sessions :
            /\ Authenticated(s) => pc'[s] = "done"
            /\ Ended(s) =>
                /\ pc'[s] = pc[s]
                /\ err'[s] = err[s]
                /\ SelectSeq(log'[s], LAMBDA e : e.via = "login") =
                        LoginExchanges(s)
            /\ (~Authenticated(s) /\ pc'[s] = "done") =>
                /\ pc[s] = "post"
                /\ Len(log'[s]) = 2
                /\ ~Failed(s)
            /\ Failed(s) => pc'[s] # "done"
      ]_vars

\* An authenticated Session on which both getters, a request through the
\* capability and get_courses have all been used.
C11_Witness ==
    \E s \in Sessions :
        /\ Authenticated(s)
        /\ got_base_url[s] # NoUrl
        /\ cap[s] # NoOpener
        /\ \E i \in 1..Len(log[s]) : log[s][i].via = "cap"
        /\ courses_login = s /\ returned.calls >= 1

---------------------------------------------------------------------------
(* C15 *)

\* The requests get_courses issued through the opener of s.
CoursesExchanges(s) == SelectSeq(log[s], LAMBDA e : e.via = "courses")

\* The course name of a listed item: the stripped text of its first link,
\* or '' without a link.
CourseName(item) ==
    IF item.a = <<>> THEN <<>> ELSE clean_string(item.a[1])

\* The instructor names of a listed item, stripped and joined by spaces.
Instructors(item) ==
    join(Str(<<" ">>), [i \in 1..Len(item.prof) |-> clean_string(item.prof[i])])

\* One entry per distinct course name, from the last item of that name.
ExpectedCourses(lis) ==
    { <<CourseName(lis[i]), Instructors(lis[i])>> :
        i \in { j \in 1..Len(lis) :
                    \A k \in (j + 1)..Len(lis) :
                        CourseName(lis[k]) # CourseName(lis[j]) } }

\* C15: the calls of get_courses made so far have issued one request each,
\* all through the opener of the Login the Courses object was given and to
\* the tabAction path resolved against that Login's base URL, with the fixed
\* query as body; and what the last call returned is determined by the
\* listing of its own response alone: one entry per distinct course name,
\* holding the space-joined instructor names of the last item of that name.
C15_GetCourses ==
    /\ \A s \in Sessions :
        /\ Len(CoursesExchanges(s)) =
                (IF s = courses_login THEN returned.calls ELSE 0)
        /\ \A i \in 1..Len(log[s]) :
            log[s][i].via = "courses" =>
                /\ log[s][i].jar = opener[s]
                /\ log[s][i].url = urljoin(base_url[s], Courses_url)
                /\ log[s][i].data = [qs |-> Courses_qs]
    /\ returned.calls = 0 => ~returned.returned /\ returned.courses = {}
    /\ returned.calls > 0 =>
        LET ex == CoursesExchanges(courses_login)
            last == ex[Len(ex)]
        IN  /\ returned.returned <=> last.resp.status = "ok"
            /\ returned.returned =>
                /\ returned.courses = ExpectedCourses(last.resp.body.values)
                /\ \A p, q \in returned.courses : p[1] = q[1] => p = q
                /\ {p[1] : p \in returned.courses} =
                    {CourseName(last.resp.body.values[i]) :
                        i \in 1..Len(last.resp.body.values)}

\* A second call, after one that returned other courses, returned the two
\* courses of a listing of three items: A with the instructors of its last
\* item, and B with none.
C15_Witness ==
    /\ returned.calls = 2
    /\ returned.returned
    /\ LET ex == CoursesExchanges(courses_login) IN
        /\ ex[1].resp.status = "ok"
        /\ Len(ex[1].resp.body.values) = 2
        /\ Len(ex[2].resp.body.values) = 3
    /\ returned.courses =
        { <<Str(<<"A">>), Str(<<"z">>)>>, <<Str(<<"B">>), <<>> >> }

=============================================================================
